---- MODULE Spec2Model ----
(***************************************************************************)
(* Model of twix-pp: the Twitter archive preprocessing pipeline            *)
(* (twitter_analysis/preprocessing/archive_processor.py), the text cleaner *)
(* (twitter_analysis/preprocessing/text_cleaner.py) and the media handler  *)
(* (twitter_analysis/preprocessing/ media_handler.py).                     *)
(*                                                                         *)
(* Text is a sequence of atoms.  An atom is one character ("a", " ", "&",  *)
(* "@", an emoji) or a run of characters that the code only ever treats    *)
(* as a unit ("amp;" is the tail of the entity "&amp;", "http://" is a URL *)
(* scheme).  The string operations of the code are modelled on atoms with  *)
(* their character-level meaning.                                          *)
(***************************************************************************)
EXTENDS Integers, Sequences, FiniteSets, TLC

VARIABLES
    \* process_archive run
    files,          \* the *.js files of the data directory, in glob order
    assets,         \* the <<directory, filename>> pairs that exist on disk
    save_formats,   \* self.save_formats
    pc,             \* position in process_archive / the calling script
    file_idx,       \* index of the file the for loop is at
    futures,        \* the futures of the current file, in submission order
    next_future,    \* index of the future whose result() is awaited next
    tweets_data,    \* the list tweets_data
    df,             \* the DataFrame: its columns and its rows in order
    log,            \* number of records logged, per kind
    attempted,      \* formats whose branch of the save loop was entered
    written,        \* formats whose file was written
    stats,          \* result of generate_summary_stats on the returned frame
    \* process_tweet call
    p_pc,           \* "input", "done"
    p_entry,        \* the raw entry given to process_tweet
    p_result,       \* what process_tweet did
    \* generate_summary_stats call
    g_pc,           \* "input", "done"
    g_df,           \* the DataFrame given to generate_summary_stats
    g_stats,        \* what generate_summary_stats did
    \* TextCleaner.clean_text calls
    t_pc,           \* "input", "once", "twice"
    t_in,           \* the text given to TextCleaner.clean_text
    t_once,         \* clean_text(t_in)
    t_twice,        \* clean_text(clean_text(t_in))
    \* find_local_media call
    f_pc,           \* "input", "done"
    f_url,          \* the media_url given to find_local_media
    f_path,         \* what find_local_media returned
    \* MediaHandler: organize_media, then generate_media_report
    m_pc,             \* "start", "scan", "scanned", "reported"
    media_files,      \* the files of the media directory, in glob order
    m_futures,        \* the process_media_file calls, in submission order
    m_objects,        \* the MediaFile object each call created, if any
    media_inventory,  \* self.media_inventory: its items in insertion order
    m_next,           \* index of the future whose result() is awaited next
    tweet_media_map,  \* tweet id -> list of file ids
    m_errors,         \* number of errors logged
    report,           \* the report written by generate_media_report
    \* TextCleaner called on an argument that may be empty or None
    e_pc,           \* "input", "done"
    e_op,           \* the method called
    e_arg,          \* its argument
    e_out           \* what it returned or raised

archive_vars == <<files, save_formats, pc, file_idx, futures, next_future,
                  tweets_data, df, log, attempted, written, stats>>
tweet_vars   == <<p_pc, p_entry, p_result>>
stats_vars   == <<g_pc, g_df, g_stats>>
text_vars    == <<t_pc, t_in, t_once, t_twice>>

lookup_vars  == <<f_pc, f_url, f_path>>

\* The variables of the calls modelled on their own.
media_vars   == <<m_pc, media_files, m_futures, m_objects, media_inventory,
                  m_next, tweet_media_map, m_errors, report>>
entity_vars  == <<e_pc, e_op, e_arg, e_out>>
aux_vars == <<lookup_vars, media_vars, entity_vars>>

vars == <<archive_vars, assets, tweet_vars, stats_vars, text_vars, aux_vars>>

----------------------------------------------------------------------------
(* Bounds *)

MaxTextLen == 3     \* atoms in a text given to a cleaner
MaxFiles == 2       \* files in the data directory
MaxEntries == 2     \* entries in the whole archive
MaxRows == 2        \* rows of a frame given to generate_summary_stats
MaxMedia == 3       \* files in the media directory
MaxTagLen == 4      \* atoms in a hashtag given to normalize_hashtags

----------------------------------------------------------------------------
(* Characters *)

\* The atoms input texts are drawn from.  "E" and "E2" are two emoji code
\* points (keys of emoji.EMOJI_DATA), "FW@" is U+FF20 FULLWIDTH COMMERCIAL
\* AT, which NFKC maps to "@".
Chars ==
    {"a", " ", "&", "amp;", "lt;", "quot;", "@", "http://", "E", "E2", "FW@"}

Whitespace == {" "}
EMOJI_DATA == {"E", "E2"}
UrlStart == {"http://", "https://", "www."}

IsSpace(c) == c \in Whitespace

\* Number of characters an atom stands for (len() counts characters).
CharLen(c) ==
    CASE c = "amp;"     -> 4
      [] c = "lt;"      -> 3
      [] c = "gt;"      -> 3
      [] c = "quot;"    -> 5
      [] c = "#39;"     -> 4
      [] c = "http://"  -> 7
      [] c = "https://" -> 8
      [] c = "www."     -> 4
      [] OTHER          -> 1

RECURSIVE StrLen(_)
StrLen(s) == IF s = <<>> THEN 0 ELSE CharLen(s[1]) + StrLen(Tail(s))

\* All texts of at most n atoms.
TextsUpTo(n) == UNION {[1..k -> Chars] : k \in 0..n}

----------------------------------------------------------------------------
(* Python string primitives *)

Drop(s, n) == SubSeq(s, n + 1, Len(s))

\* str.replace(pat, rep) and re.sub of a literal pattern: left to right,
\* non-overlapping.
RECURSIVE Replace(_, _, _)
Replace(s, pat, rep) ==
    IF Len(s) < Len(pat) THEN s
    ELSE IF SubSeq(s, 1, Len(pat)) = pat
         THEN rep \o Replace(Drop(s, Len(pat)), pat, rep)
         ELSE <<s[1]>> \o Replace(Tail(s), pat, rep)

\* Length of the leading run of non-whitespace atoms.
RECURSIVE RunLen(_)
RunLen(s) ==
    IF s = <<>> \/ IsSpace(s[1]) THEN 0 ELSE 1 + RunLen(Tail(s))

\* str.strip()
RECURSIVE LStrip(_)
LStrip(s) == IF s # <<>> /\ IsSpace(s[1]) THEN LStrip(Tail(s)) ELSE s

RECURSIVE RStrip(_)
RStrip(s) ==
    IF s # <<>> /\ IsSpace(s[Len(s)]) THEN RStrip(SubSeq(s, 1, Len(s) - 1))
    ELSE s

Strip(s) == RStrip(LStrip(s))

\* str.split(): the maximal runs of non-whitespace.
RECURSIVE Split(_)
Split(s) ==
    IF s = <<>> THEN <<>>
    ELSE IF IsSpace(s[1]) THEN Split(Tail(s))
    ELSE <<SubSeq(s, 1, RunLen(s))>> \o Split(Drop(s, RunLen(s)))

\* sep.join(words)
RECURSIVE Join(_, _)
Join(words, sep) ==
    IF words = <<>> THEN <<>>
    ELSE IF Len(words) = 1 THEN words[1]
    ELSE words[1] \o sep \o Join(Tail(words), sep)

\* ' '.join(text.split())
CollapseWhitespace(s) == Join(Split(s), <<" ">>)

----------------------------------------------------------------------------
(* TextCleaner *)

\* url_pattern.sub(' ', text) with url_pattern = https?://\S+|www\.\S+ :
\* a URL starts at a scheme atom that is followed by at least one
\* non-whitespace character and runs to the end of that run.
RECURSIVE url_pattern_sub(_)
url_pattern_sub(s) ==
    IF s = <<>> THEN <<>>
    ELSE IF s[1] \in UrlStart /\ RunLen(Tail(s)) > 0
         THEN <<" ">> \o url_pattern_sub(Drop(s, 1 + RunLen(Tail(s))))
         ELSE <<s[1]>> \o url_pattern_sub(Tail(s))

\* \S+@\S+ matches at the head of s: some "@" after the first character of
\* the run has a non-whitespace character after it.
EmailAtHead(s) ==
    \E p \in 2..(RunLen(s) - 1) : s[p] = "@"

\* email_pattern.sub(' ', text) with email_pattern = \S+@\S+ (greedy: the
\* match runs to the end of the run of non-whitespace).
RECURSIVE email_pattern_sub(_)
email_pattern_sub(s) ==
    IF s = <<>> THEN <<>>
    ELSE IF EmailAtHead(s)
         THEN <<" ">> \o email_pattern_sub(Drop(s, RunLen(s)))
         ELSE <<s[1]>> \o email_pattern_sub(Tail(s))

\* unicodedata.normalize('NFKC', c) of one atom.
NFKCChar(c) == IF c = "FW@" THEN "@" ELSE c

NFKC(s) == [i \in 1..Len(s) |-> NFKCChar(s[i])]

\* The emoji of a text, last one first.
EmojiListReversed(s) ==
    LET found == SelectSeq(s, LAMBDA c : c \in EMOJI_DATA)
    IN  [i \in 1..Len(found) |-> found[Len(found) + 1 - i]]

\* [c for c in text if c in emoji.EMOJI_DATA]
EmojiList(s) == SelectSeq(s, LAMBDA c : c \in EMOJI_DATA)

\* ' '.join(emoji_list)
RECURSIVE JoinChars(_)
JoinChars(cs) ==
    IF cs = <<>> THEN <<>>
    ELSE IF Len(cs) = 1 THEN cs
    ELSE <<cs[1], " ">> \o JoinChars(Tail(cs))

\* The five str.replace calls of TextCleaner.clean_text, in source order.
ReplaceHtmlEntities(s) ==
    LET s1 == Replace(s,  <<"&", "amp;">>,  <<"&">>)
        s2 == Replace(s1, <<"&", "lt;">>,   <<"<">>)
        s3 == Replace(s2, <<"&", "gt;">>,   <<">">>)
        s4 == Replace(s3, <<"&", "quot;">>, <<"\"">>)
        s5 == Replace(s4, <<"&", "#39;">>,  <<"'">>)
    IN  s5

\* TextCleaner.clean_text(text, remove_urls, remove_emails,
\* normalize_unicode, preserve_emojis); remove_mentions, remove_hashtags and
\* remove_numbers are held at their default False.
TextCleaner_clean_text(text, remove_urls, remove_emails, normalize_unicode, preserve_emojis) ==
    IF text = <<>> THEN <<>>
    ELSE
      LET emoji_list == IF preserve_emojis THEN EmojiList(text) ELSE <<>>
          a == Strip(text)
          b == ReplaceHtmlEntities(a)
          c == IF remove_urls THEN url_pattern_sub(b) ELSE b
          d == IF remove_emails THEN email_pattern_sub(c) ELSE c
          e == IF normalize_unicode THEN NFKC(d) ELSE d
          f == CollapseWhitespace(e)
      IN  IF preserve_emojis /\ emoji_list # <<>>
          THEN f \o <<" ">> \o JoinChars(emoji_list)
          ELSE f

\* clean_text with every option at its default.
CleanDefault(text) == TextCleaner_clean_text(text, TRUE, TRUE, TRUE, TRUE)

----------------------------------------------------------------------------
(* Raw archive entries (decoded JSON) *)

\* A JSON object is a record that carries the set of keys it has; d[k] is
\* meaningful only for k \in d.keys.  dict.get(k, default):
Get(d, k, default) == IF k \in d.keys THEN d[k] ELSE default

\* The empty string as a URL: ''.split('/') = [''].
EmptyUrl == <<"">>

\* A URL is the sequence of its '/'-separated segments.
SampleUrl  == <<"http:", "", "pbs.twimg.com", "media", "img.jpg">>
SampleUrlS == <<"https:", "", "pbs.twimg.com", "media", "img.jpg">>

\* JSON values of a count field: an integer, null, a numeric string, a
\* non-numeric string.
IntVal(n) == [kind |-> "int",    v |-> n]
NullVal   == [kind |-> "null",   v |-> 0]
StrVal(n) == [kind |-> "numstr", v |-> n]
BadStrVal == [kind |-> "badstr", v |-> 0]

NoEntities == [keys |-> {}, hashtags |-> <<>>, urls |-> <<>>, media |-> <<>>]

MediaItem(ks, type, url, urls) ==
    [keys |-> ks, type |-> type, media_url |-> url, media_url_https |-> urls]

PhotoItem == MediaItem({"type", "media_url"}, "photo", SampleUrl, EmptyUrl)

\* The fields a tweet object may carry.
TweetKeys ==
    {"id_str", "created_at", "full_text", "text", "favorite_count",
     "retweet_count", "entities", "extended_entities", "retweeted_status",
     "conversation_id_str", "in_reply_to_user_id_str", "lang"}

\* A tweet object with the given keys present.
TweetObj(ks, id, created, full, txt, fav, rt, ent, ext) ==
    [keys |-> ks, id_str |-> id, created_at |-> created, full_text |-> full,
     text |-> txt, favorite_count |-> fav, retweet_count |-> rt,
     entities |-> ent, extended_entities |-> ext,
     retweeted_status |-> "empty", conversation_id_str |-> "c1",
     in_reply_to_user_id_str |-> "u1", lang |-> "en"]

\* An entry of a decoded file: kind says what JSON value it is.
\*   "wrapped"          {"tweet": {...}}
\*   "bare"             {...} without a "tweet" key
\*   "wrapped_nondict"  {"tweet": <not an object>}
\*   "nondict"          a string, number, list or null
Entry(kind, tweet) == [kind |-> kind, tweet |-> tweet]

----------------------------------------------------------------------------
(* Timestamps *)

\* datetime.strptime(s, '%a %b %d %H:%M:%S %z %Y') of the strings used as
\* sample timestamps: the instant (ordered), hour and weekday name.  Any
\* other string raises ValueError.
TimeOf(s) ==
    CASE s = "Wed Oct 10 20:19:24 +0000 2018" ->
            [t |-> 1, hour |-> 20, day |-> "Wednesday"]
      [] s = "Thu Oct 11 10:19:24 +0000 2018" ->
            [t |-> 2, hour |-> 10, day |-> "Thursday"]

T1 == "Wed Oct 10 20:19:24 +0000 2018"
T2 == "Thu Oct 11 10:19:24 +0000 2018"
ValidTimes == {T1, T2}

\* The time of the run: later than every timestamp of the archive.
NowTime == [t |-> 3, hour |-> 11, day |-> "Sunday"]

\* The module as it would be with "import pytz" among its imports.
pytz_is_imported == TRUE

\* archive_processor.py imports json, os, datetime, typing, pandas, logging,
\* pathlib, re, dataclasses, concurrent.futures and tqdm; it does not import
\* pytz, so the name pytz is unbound in the module.
pytz_imported == FALSE

\* datetime.now(pytz.UTC)
datetime_now ==
    IF pytz_imported THEN [ok |-> TRUE,  exc |-> "",          time |-> NowTime]
                     ELSE [ok |-> FALSE, exc |-> "NameError", time |-> NowTime]

\* Lines 104-109 of process_tweet: the parsed date, or the exception that
\* leaves the inner try.
ParseCreatedAt(created_at) ==
    IF created_at = "" THEN datetime_now
    ELSE IF created_at \in ValidTimes
         THEN [ok |-> TRUE, exc |-> "", time |-> TimeOf(created_at)]
         ELSE datetime_now   \* except ValueError: ... datetime.now(pytz.UTC)

----------------------------------------------------------------------------
(* TwitterArchivePreprocessor: clean_text, find_local_media, process_tweet *)

\* clean_text delegating to TextCleaner.clean_text with default options.
clean_text_by_cleaner(text) == CleanDefault(text)

\* TwitterArchivePreprocessor.clean_text
clean_text(text) ==
    LET s1 == Replace(text, <<"&", "amp;">>, <<"&">>)
        s2 == Replace(s1,   <<"&", "lt;">>,  <<"<">>)
        s3 == Replace(s2,   <<"&", "gt;">>,  <<">">>)
    IN  CollapseWhitespace(s3)

\* The candidate locations of find_local_media, in probe order.
Locations == <<"assets", "assets/media", "assets/images">>

NoPath == [found |-> FALSE, dir |-> "", name |-> ""]

\* Path.exists() of directory / name.  fs is the set of <<directory, name>>
\* pairs that exist on disk; <<d, "">> is the directory d itself, since
\* Path(d) / '' is Path(d), and the asset root joined with the name of one
\* of its subfolders is that subfolder.
PathExists(dir, name, fs) ==
    \/ <<dir, name>> \in fs
    \/ dir = "assets" /\ name = "media"  /\ <<"assets/media", "">> \in fs
    \/ dir = "assets" /\ name = "images" /\ <<"assets/images", "">> \in fs

\* TwitterArchivePreprocessor.find_local_media.
find_local_media(media_url, fs) ==
    IF media_url = EmptyUrl THEN NoPath
    ELSE LET filename == media_url[Len(media_url)]
             hits == {i \in 1..Len(Locations) :
                         PathExists(Locations[i], filename, fs)}
         IN  IF hits = {} THEN NoPath
             ELSE LET first == CHOOSE i \in hits : \A j \in hits : i <= j
                  IN  [found |-> TRUE, dir |-> Locations[first], name |-> filename]

\* A coercion that takes integers only and counts a numeric string as 0.
CountOfIntOnly(x) == IF x.kind = "int" THEN x.v ELSE 0

\* int(x or 0)
CountFails(x) == x.kind = "badstr"
CountOf(x) == IF x.kind \in {"int", "numstr"} THEN x.v ELSE 0

\* One TweetMedia per item (lines 118-126).
TweetMedia(m, fs) ==
    LET plain == Get(m, "media_url", EmptyUrl)
        url   == IF plain # EmptyUrl THEN plain
                 ELSE Get(m, "media_url_https", EmptyUrl)
    IN  [type |-> Get(m, "type", "unknown"), url |-> url,
         local_path |-> find_local_media(url, fs)]

\* tweet.get('full_text', tweet.get('text', ''))
RawText(tweet) == Get(tweet, "full_text", Get(tweet, "text", <<>>))

NoTweet ==
    [id |-> "", text |-> <<>>, created_at |-> NowTime, likes |-> 0,
     retweets |-> 0, hashtags |-> <<>>, urls |-> <<>>, media |-> <<>>,
     is_retweet |-> FALSE, conversation_id |-> "",
     in_reply_to_user_id |-> "None", lang |-> ""]

\* The body of the try block once tweet and tweet_id are bound
\* (lines 103-145): the Tweet, or ok = FALSE when an exception is raised.
BuildTweet(tweet, fs) ==
    LET tweet_id    == Get(tweet, "id_str", "unknown")
        date        == ParseCreatedAt(Get(tweet, "created_at", ""))
        entities    == Get(tweet, "entities", NoEntities)
        extended    == Get(tweet, "extended_entities", NoEntities)
        media_items == Get(entities, "media", <<>>) \o Get(extended, "media", <<>>)
        fav         == Get(tweet, "favorite_count", IntVal(0))
        rt          == Get(tweet, "retweet_count", IntVal(0))
        hashtags    == Get(entities, "hashtags", <<>>)
        urls        == Get(entities, "urls", <<>>)
    IN  IF ~date.ok \/ CountFails(fav) \/ CountFails(rt)
        THEN [ok |-> FALSE, tweet |-> NoTweet]
        ELSE [ok |-> TRUE,
              tweet |->
                [id |-> tweet_id,
                 text |-> clean_text(RawText(tweet)),
                 created_at |-> date.time,
                 likes |-> CountOf(fav),
                 retweets |-> CountOf(rt),
                 hashtags |-> [i \in 1..Len(hashtags) |->
                                  Get(hashtags[i], "text", "")],
                 urls |-> [i \in 1..Len(urls) |->
                                  Get(urls[i], "expanded_url", "")],
                 media |-> [i \in 1..Len(media_items) |->
                                  TweetMedia(media_items[i], fs)],
                 is_retweet |-> ("retweeted_status" \in tweet.keys
                                 /\ tweet.retweeted_status = "nonempty"),
                 conversation_id |-> Get(tweet, "conversation_id_str", ""),
                 in_reply_to_user_id |->
                     Get(tweet, "in_reply_to_user_id_str", "None"),
                 lang |-> Get(tweet, "lang", "unknown")]]

\* TwitterArchivePreprocessor.process_tweet.  outcome is "tweet" (a Tweet is
\* returned), "none" (None is returned) or "raise" (an exception leaves the
\* method).  The except block formats tweet_id into its message: when the
\* exception came before tweet_id was bound (tweet_data or its "tweet" value
\* is not a dict) the handler itself raises UnboundLocalError.
process_tweet(tweet_data, fs) ==
    IF tweet_data.kind \in {"nondict", "wrapped_nondict"}
    THEN [outcome |-> "raise", tweet |-> NoTweet, errors |-> 0]
    ELSE LET built == BuildTweet(tweet_data.tweet, fs)
         IN  IF built.ok
             THEN [outcome |-> "tweet", tweet |-> built.tweet, errors |-> 0]
             ELSE [outcome |-> "none",  tweet |-> NoTweet,     errors |-> 1]

----------------------------------------------------------------------------
(* DataFrame and generate_summary_stats *)

\* The fields of the Tweet dataclass: the columns of a frame built from at
\* least one Tweet.
TweetColumns ==
    {"id", "text", "created_at", "likes", "retweets", "hashtags", "urls",
     "media", "is_retweet", "conversation_id", "in_reply_to_user_id", "lang"}

DerivedColumns == {"has_media", "tweet_length", "hour_of_day", "day_of_week"}

\* pd.DataFrame([vars(tweet) for tweet in tweets_data]): a frame built from
\* an empty list has no columns at all.
DataFrame(tweets) ==
    [columns |-> IF tweets = <<>> THEN {} ELSE TweetColumns, rows |-> tweets]

\* A row with the derived features of lines 216-219.
DeriveRow(r) ==
    [id |-> r.id, text |-> r.text, created_at |-> r.created_at,
     likes |-> r.likes, retweets |-> r.retweets, hashtags |-> r.hashtags,
     urls |-> r.urls, media |-> r.media, is_retweet |-> r.is_retweet,
     conversation_id |-> r.conversation_id,
     in_reply_to_user_id |-> r.in_reply_to_user_id, lang |-> r.lang,
     has_media |-> Len(r.media) > 0,
     tweet_length |-> StrLen(r.text),
     hour_of_day |-> r.created_at.hour,
     day_of_week |-> r.created_at.day]

\* Series.sum() of a column of numbers.
RECURSIVE SeqSum(_)
SeqSum(ns) == IF ns = <<>> THEN 0 ELSE ns[1] + SeqSum(Tail(ns))

\* df[col]: the column of a frame as a series.
Column(rows, col) == [i \in 1..Len(rows) |-> rows[i][col]]

\* A sum of a boolean column that counts every row.
BoolSeriesOnes(series) == [i \in 1..Len(series) |-> 1]

\* Series.sum() of a boolean column counts the True values.
BoolSeries(series) == [i \in 1..Len(series) |-> IF series[i] THEN 1 ELSE 0]

\* Series.apply(len).
LenSeries(series) == [i \in 1..Len(series) |-> Len(series[i])]

\* Series.mean(): sum over count, NaN for an empty series.
Mean(total, n) ==
    IF n = 0 THEN [nan |-> TRUE,  num |-> 0,     den |-> 1]
             ELSE [nan |-> FALSE, num |-> total, den |-> n]

NaT == [t |-> 0, hour |-> 0, day |-> "NaT"]

\* Series.min() / Series.max() of created_at: NaT for an empty series.
MinTime(rows) ==
    IF rows = <<>> THEN NaT
    ELSE rows[CHOOSE i \in 1..Len(rows) :
                 \A j \in 1..Len(rows) : rows[i].created_at.t <= rows[j].created_at.t
             ].created_at

MaxTime(rows) ==
    IF rows = <<>> THEN NaT
    ELSE rows[CHOOSE i \in 1..Len(rows) :
                 \A j \in 1..Len(rows) : rows[i].created_at.t >= rows[j].created_at.t
             ].created_at

\* Series.value_counts() as a function from the values present to counts.
ValueCounts(series) ==
    [v \in {series[i] : i \in 1..Len(series)} |->
        Cardinality({i \in 1..Len(series) : series[i] = v})]

\* The columns generate_summary_stats reads (lines 255-272).
StatsColumns ==
    {"created_at", "likes", "retweets", "has_media", "urls", "hashtags",
     "tweet_length", "hour_of_day", "day_of_week"}

NoStats ==
    [total_tweets |-> 0, start |-> NaT, end |-> NaT, total_likes |-> 0,
     total_retweets |-> 0, avg_likes_per_tweet |-> Mean(0, 0),
     avg_retweets_per_tweet |-> Mean(0, 0), tweets_with_media |-> 0,
     tweets_with_urls |-> 0, avg_tweet_length |-> Mean(0, 0)]

\* TwitterArchivePreprocessor.generate_summary_stats: df[...] of a column
\* the frame does not have raises KeyError.
generate_summary_stats(frame) ==
    IF ~(StatsColumns \subseteq frame.columns)
    THEN [raised |-> TRUE, exc |-> "KeyError", stats |-> NoStats,
          hours |-> <<>>, days |-> <<>>]
    ELSE LET rows == frame.rows
             n == Len(rows)
             likes == SeqSum(Column(rows, "likes"))
             retweets == SeqSum(Column(rows, "retweets"))
         IN  [raised |-> FALSE, exc |-> "",
              stats |->
                [total_tweets |-> n,
                 start |-> MinTime(rows),
                 end |-> MaxTime(rows),
                 total_likes |-> likes,
                 total_retweets |-> retweets,
                 avg_likes_per_tweet |-> Mean(likes, n),
                 avg_retweets_per_tweet |-> Mean(retweets, n),
                 tweets_with_media |->
                     SeqSum(BoolSeries(Column(rows, "has_media"))),
                 tweets_with_urls |->
                     SeqSum(LenSeries(Column(rows, "urls"))),
                 avg_tweet_length |->
                     Mean(SeqSum(Column(rows, "tweet_length")), n)],
              hours |-> ValueCounts(Column(rows, "hour_of_day")),
              days |-> ValueCounts(Column(rows, "day_of_week"))]

----------------------------------------------------------------------------
(* Archive inputs *)

FullKeys == TweetKeys \ {"retweeted_status", "extended_entities"}

MediaEntities ==
    [keys |-> {"hashtags", "urls", "media"}, hashtags |-> <<>>, urls |-> <<>>,
     media |-> <<PhotoItem>>]

TagEntities ==
    [keys |-> {"hashtags", "urls", "media"},
     hashtags |-> <<[keys |-> {"text"}, text |-> "test"]>>,
     urls |-> <<[keys |-> {"expanded_url"}, expanded_url |-> "https://example.com"]>>,
     media |-> <<>>]

\* Entities with two hashtags and two urls, neither in alphabetical order,
\* the second url without its expanded form.
TwoTagEntities ==
    [keys |-> {"hashtags", "urls"},
     hashtags |-> <<[keys |-> {"text"}, text |-> "test"],
                    [keys |-> {"text"}, text |-> "again"]>>,
     urls |-> <<[keys |-> {"expanded_url"}, expanded_url |-> "https://example.com"],
                [keys |-> {}, expanded_url |-> ""]>>,
     media |-> <<>>]

\* The entries the files of an archive are made of: three complete tweets
\* (two of them with the same timestamp, the earlier-listed one with the
\* later timestamp), a tweet that carries only an id, and an entry that is
\* not an object.
EntryA ==
    Entry("wrapped", TweetObj(FullKeys, "1", T2, <<"a", " ", "#", "a">>, <<>>,
                              IntVal(5), IntVal(2), TagEntities, NoEntities))
EntryB ==
    Entry("wrapped", TweetObj(FullKeys, "2", T1, <<"a", "E">>, <<>>,
                              IntVal(0), IntVal(0), MediaEntities, NoEntities))
EntryC ==
    Entry("bare", TweetObj(FullKeys, "3", T1, <<"a">>, <<>>,
                           StrVal(1), NullVal, NoEntities, NoEntities))
EntryOnlyId ==
    Entry("wrapped", TweetObj({"id_str"}, "123", "", <<>>, <<>>,
                              IntVal(0), IntVal(0), NoEntities, NoEntities))
EntryNotObject ==
    Entry("nondict", TweetObj({}, "", "", <<>>, <<>>,
                              IntVal(0), IntVal(0), NoEntities, NoEntities))

ArchiveEntries == {EntryA, EntryB, EntryC, EntryOnlyId, EntryNotObject}

\* A file of the data directory: whether its content decodes (json.loads
\* succeeds) and, if so, the list it decodes to.
MalformedFile == [decodes |-> FALSE, entries |-> <<>>]
ListFile(es)  == [decodes |-> TRUE,  entries |-> es]

EntrySeqs(n) == UNION {[1..k -> ArchiveEntries] : k \in 0..n}

\* The nondecreasing cut points that split a list of n entries over k files.
Cuts(k, n) ==
    {c \in [1..k -> 0..n] :
        /\ \A i \in 1..(k - 1) : c[i] <= c[i + 1]
        /\ k > 0 => c[k] = n}

\* The archives with at most nf files and ne entries in all.
ArchivesUpTo(nf, ne) ==
    UNION {
        {[i \in 1..k |->
            IF i \in bad THEN MalformedFile
            ELSE ListFile(SubSeq(all, (IF i = 1 THEN 0 ELSE c[i - 1]) + 1, c[i]))] :
         c \in {d \in Cuts(k, Len(all)) :
                  \A i \in bad : d[i] = (IF i = 1 THEN 0 ELSE d[i - 1])}} :
        <<all, k, bad>> \in
            {x \in EntrySeqs(ne) \X (0..nf) \X SUBSET (1..nf) :
                /\ x[3] \subseteq 1..x[2]
                /\ (x[2] = 0 => x[1] = <<>>)} }

\* The save_formats arguments of the constructor: none, and a list with an
\* upper-case and an unsupported name.
FormatArgs == {<<>>, <<"CSV", "xml", "json">>}

SupportedFormats == {"csv", "parquet", "json"}

\* str.lower() of a format name.
Lower(f) == IF f = "CSV" THEN "csv" ELSE f

----------------------------------------------------------------------------
(* process_archive, then generate_summary_stats, as the script runs them *)

NoLog ==
    [file_errors |-> 0, tweet_errors |-> 0, frame_errors |-> 0,
     save_errors |-> 0, warnings |-> 0]

NoResult == [outcome |-> "pending", tweet |-> NoTweet, errors |-> 0]

NoFrame == [columns |-> {}, rows |-> <<>>]

NoStatsResult ==
    [raised |-> FALSE, exc |-> "", stats |-> NoStats, hours |-> <<>>, days |-> <<>>]

\* TwitterArchivePreprocessor.load_json_file: the decoded data, {} when the
\* content does not decode, and the number of errors logged.
load_json_file(file) ==
    IF file.decodes THEN [data |-> file.entries, errors |-> 0]
                    ELSE [data |-> <<>>,         errors |-> 1]

\* __init__: self.save_formats = save_formats or ['parquet', 'csv']
InitArchive ==
    /\ files \in ArchivesUpTo(MaxFiles, MaxEntries)
    /\ assets = {<<"assets", "">>, <<"assets/media", "">>,
                 <<"assets/media", "img.jpg">>}
    /\ \E arg \in FormatArgs :
          save_formats = IF arg = <<>> THEN <<"parquet", "csv">> ELSE arg
    /\ pc = "start"
    /\ file_idx = 1
    /\ futures = <<>>
    /\ next_future = 1
    /\ tweets_data = <<>>
    /\ df = NoFrame
    /\ log = NoLog
    /\ attempted = <<>>
    /\ written = {}
    /\ stats = NoStatsResult

IdleArchive ==
    /\ files = <<>>
    /\ save_formats = <<>>
    /\ pc = "idle"
    /\ file_idx = 1
    /\ futures = <<>>
    /\ next_future = 1
    /\ tweets_data = <<>>
    /\ df = NoFrame
    /\ log = NoLog
    /\ attempted = <<>>
    /\ written = {}
    /\ stats = NoStatsResult

\* Lines 172-185: list the files and load the first one for the debug
\* messages.
Start ==
    /\ pc = "start"
    /\ log' = IF files # <<>>
              THEN [log EXCEPT !.file_errors = @ + load_json_file(files[1]).errors]
              ELSE log
    /\ pc' = "files"
    /\ UNCHANGED <<tweet_vars, stats_vars, text_vars, aux_vars>>
    /\ UNCHANGED <<files, assets, save_formats, file_idx, futures, next_future,
                   tweets_data, df, attempted, written, stats>>

\* Lines 188-191: load the next file and submit one task per entry.
LoadFile ==
    /\ pc = "files"
    /\ file_idx <= Len(files)
    /\ LET loaded == load_json_file(files[file_idx])
       IN  /\ log' = [log EXCEPT !.file_errors = @ + loaded.errors]
           /\ IF loaded.data = <<>>
              THEN /\ file_idx' = file_idx + 1
                   /\ UNCHANGED <<futures, next_future, pc>>
              ELSE /\ futures' = [i \in 1..Len(loaded.data) |->
                                    [entry |-> loaded.data[i], result |-> NoResult]]
                   /\ next_future' = 1
                   /\ pc' = "collect"
                   /\ UNCHANGED file_idx
    /\ UNCHANGED <<tweet_vars, stats_vars, text_vars, aux_vars>>
    /\ UNCHANGED <<files, assets, save_formats, tweets_data, df, attempted,
                   written, stats>>

\* A worker thread runs one submitted process_tweet task.
RunTask(i) ==
    /\ pc \in {"collect", "shutdown"}
    /\ i \in 1..Len(futures)
    /\ futures[i].result.outcome = "pending"
    /\ LET r == process_tweet(futures[i].entry, assets)
       IN  /\ futures' = [futures EXCEPT ![i].result = r]
           /\ log' = [log EXCEPT !.tweet_errors = @ + r.errors]
    /\ UNCHANGED <<tweet_vars, stats_vars, text_vars, aux_vars>>
    /\ UNCHANGED <<files, assets, save_formats, pc, file_idx, next_future,
                   tweets_data, df, attempted, written, stats>>

\* A collection loop that takes the results as the tasks complete (as
\* concurrent.futures.as_completed would hand them out) instead of in
\* submission order; a collected future is marked "collected".
CollectAsCompleted ==
    /\ pc = "collect"
    /\ \E i \in 1..Len(futures) :
          /\ futures[i].result.outcome \notin {"pending", "collected"}
          /\ LET r == futures[i].result
                 marked == [futures EXCEPT ![i].result.outcome = "collected"]
             IN  IF r.outcome = "raise"
                 THEN /\ pc' = "shutdown"
                      /\ UNCHANGED <<tweets_data, next_future, file_idx, futures>>
                 ELSE /\ tweets_data' = IF r.outcome = "tweet"
                                        THEN Append(tweets_data, r.tweet)
                                        ELSE tweets_data
                      /\ futures' = marked
                      /\ UNCHANGED next_future
                      /\ IF \A j \in 1..Len(marked) :
                               marked[j].result.outcome = "collected"
                         THEN /\ pc' = "files"
                              /\ file_idx' = file_idx + 1
                         ELSE UNCHANGED <<pc, file_idx>>
    /\ UNCHANGED <<tweet_vars, stats_vars, text_vars, aux_vars>>
    /\ UNCHANGED <<files, assets, save_formats, df, log, attempted,
                   written, stats>>

\* Lines 192-195: future.result() of the next future, in submission order.
\* An exception of the task is re-raised here and leaves the with block.
Collect ==
    /\ pc = "collect"
    /\ futures[next_future].result.outcome # "pending"
    /\ LET r == futures[next_future].result
       IN  IF r.outcome = "raise"
           THEN /\ pc' = "shutdown"
                /\ UNCHANGED <<tweets_data, next_future, file_idx>>
           ELSE /\ tweets_data' = IF r.outcome = "tweet"
                                  THEN Append(tweets_data, r.tweet)
                                  ELSE tweets_data
                /\ IF next_future < Len(futures)
                   THEN /\ next_future' = next_future + 1
                        /\ UNCHANGED <<pc, file_idx>>
                   ELSE /\ pc' = "files"
                        /\ file_idx' = file_idx + 1
                        /\ UNCHANGED next_future
    /\ UNCHANGED <<tweet_vars, stats_vars, text_vars, aux_vars>>
    /\ UNCHANGED <<files, assets, save_formats, futures, df, log, attempted,
                   written, stats>>

\* ThreadPoolExecutor.__exit__ waits for the submitted tasks, then the
\* exception leaves process_archive.
Shutdown ==
    /\ pc = "shutdown"
    /\ \A i \in 1..Len(futures) : futures[i].result.outcome # "pending"
    /\ pc' = "raised"
    /\ UNCHANGED <<tweet_vars, stats_vars, text_vars, aux_vars>>
    /\ UNCHANGED <<files, assets, save_formats, file_idx, futures, next_future,
                   tweets_data, df, log, attempted, written, stats>>

\* Lines 197-212: build the frame; warn when it has no media column.
BuildFrame ==
    /\ pc = "files"
    /\ file_idx > Len(files)
    /\ df' = DataFrame(tweets_data)
    /\ log' = IF "media" \in DataFrame(tweets_data).columns THEN log
              ELSE [log EXCEPT !.warnings = @ + 1]
    /\ pc' = "derive"
    /\ UNCHANGED <<tweet_vars, stats_vars, text_vars, aux_vars>>
    /\ UNCHANGED <<files, assets, save_formats, file_idx, futures, next_future,
                   tweets_data, attempted, written, stats>>

\* Lines 214-219 and 243-245: the derived features.  has_media is assigned
\* first; df['text'] of a frame without that column raises KeyError, which
\* is logged and re-raised.
Derive ==
    /\ pc = "derive"
    /\ IF "text" \in df.columns /\ "created_at" \in df.columns
       THEN /\ df' = [columns |-> df.columns \cup DerivedColumns,
                      rows |-> [i \in 1..Len(df.rows) |-> DeriveRow(df.rows[i])]]
            /\ pc' = "sort"
            /\ UNCHANGED log
       ELSE /\ df' = [df EXCEPT !.columns = @ \cup {"has_media"}]
            /\ log' = [log EXCEPT !.frame_errors = @ + 1]
            /\ pc' = "raised"
    /\ UNCHANGED <<tweet_vars, stats_vars, text_vars, aux_vars>>
    /\ UNCHANGED <<files, assets, save_formats, file_idx, futures, next_future,
                   tweets_data, attempted, written, stats>>

IsSortedByCreatedAt(rows) ==
    \A i \in 1..(Len(rows) - 1) : rows[i].created_at.t <= rows[i + 1].created_at.t

\* sort_values that leaves the rows as assembled.
sort_values_unsorted(rows) == {rows}

\* df.sort_values('created_at') with the default kind='quicksort', which is
\* not a stable sort: the rows in any order that is ascending by created_at.
sort_values(rows) ==
    {s \in {[i \in 1..Len(rows) |-> rows[p[i]]] : p \in Permutations(1..Len(rows))} :
        IsSortedByCreatedAt(s)}

\* Lines 221-222.
Sort ==
    /\ pc = "sort"
    /\ \E sorted \in sort_values(df.rows) : df' = [df EXCEPT !.rows = sorted]
    /\ pc' = "save"
    /\ UNCHANGED <<tweet_vars, stats_vars, text_vars, aux_vars>>
    /\ UNCHANGED <<files, assets, save_formats, file_idx, futures, next_future,
                   tweets_data, log, attempted, written, stats>>

\* The save loop without the inner try: a failed write leaves the run.
SaveFormatUnguarded ==
    /\ pc = "save"
    /\ Len(attempted) < Len(save_formats)
    /\ LET format_type == save_formats[Len(attempted) + 1]
       IN  /\ attempted' = Append(attempted, format_type)
           /\ IF Lower(format_type) \in SupportedFormats
              THEN \E ok \in BOOLEAN :
                     IF ok THEN /\ written' = written \cup {Lower(format_type)}
                                /\ UNCHANGED <<log, pc>>
                           ELSE /\ log' = [log EXCEPT !.frame_errors = @ + 1]
                                /\ pc' = "raised"
                                /\ UNCHANGED written
              ELSE /\ log' = [log EXCEPT !.warnings = @ + 1]
                   /\ UNCHANGED <<written, pc>>
    /\ UNCHANGED <<tweet_vars, stats_vars, text_vars, aux_vars>>
    /\ UNCHANGED <<files, assets, save_formats, file_idx, futures,
                   next_future, tweets_data, df, stats>>

\* Lines 225-242: one iteration of the save loop.  The write of a supported
\* format succeeds or raises; the exception is logged and the loop goes on.
SaveFormat ==
    /\ pc = "save"
    /\ Len(attempted) < Len(save_formats)
    /\ LET format_type == save_formats[Len(attempted) + 1]
       IN  /\ attempted' = Append(attempted, format_type)
           /\ IF Lower(format_type) \in SupportedFormats
              THEN \E ok \in BOOLEAN :
                     IF ok THEN /\ written' = written \cup {Lower(format_type)}
                                /\ UNCHANGED log
                           ELSE /\ log' = [log EXCEPT !.save_errors = @ + 1]
                                /\ UNCHANGED written
              ELSE /\ log' = [log EXCEPT !.warnings = @ + 1]
                   /\ UNCHANGED written
    /\ UNCHANGED <<tweet_vars, stats_vars, text_vars, aux_vars>>
    /\ UNCHANGED <<files, assets, save_formats, pc, file_idx, futures,
                   next_future, tweets_data, df, stats>>

\* Lines 247-248.
Return ==
    /\ pc = "save"
    /\ Len(attempted) = Len(save_formats)
    /\ pc' = "returned"
    /\ UNCHANGED <<tweet_vars, stats_vars, text_vars, aux_vars>>
    /\ UNCHANGED <<files, assets, save_formats, file_idx, futures, next_future,
                   tweets_data, df, log, attempted, written, stats>>

\* scripts/process_my_archive.py line 57: the statistics of the returned
\* frame.
SummaryStats ==
    /\ pc = "returned"
    /\ stats' = generate_summary_stats(df)
    /\ pc' = "summarized"
    /\ UNCHANGED <<tweet_vars, stats_vars, text_vars, aux_vars>>
    /\ UNCHANGED <<files, assets, save_formats, file_idx, futures, next_future,
                   tweets_data, df, log, attempted, written>>

----------------------------------------------------------------------------
(* process_tweet called on one raw entry *)

IdleTweet ==
    /\ p_pc = "idle"
    /\ p_entry = EntryNotObject
    /\ p_result = NoResult

\* Entries that differ in their text fields only.
TextEntries(n) ==
    {Entry(kind,
           TweetObj({"id_str", "created_at"} \cup ks, "1", T1,
                    IF "full_text" \in ks THEN t ELSE <<>>,
                    IF ks = {"text"} THEN t
                    ELSE IF "text" \in ks THEN <<"a", " ", " ", "&", "amp;">>
                    ELSE <<>>,
                    IntVal(0), IntVal(0), NoEntities, NoEntities)) :
        <<kind, ks, t>> \in
            {"wrapped", "bare"} \X (SUBSET {"full_text", "text"}) \X TextsUpTo(n)}

CreatedAtChoices ==
    {<<{}, "">>, <<{"created_at"}, "">>, <<{"created_at"}, "not a date">>,
     <<{"created_at"}, T1>>, <<{"created_at"}, T2>>}

FavoriteChoices ==
    {<<{}, IntVal(0)>>, <<{"favorite_count"}, IntVal(5)>>,
     <<{"favorite_count"}, NullVal>>, <<{"favorite_count"}, StrVal(7)>>,
     <<{"favorite_count"}, BadStrVal>>}

RetweetChoices == {<<{}, IntVal(0)>>, <<{"retweet_count"}, IntVal(2)>>}

\* Entries that differ in which scalar fields they carry and in their values.
FieldEntries ==
    {Entry(kind,
           TweetObj(idk \cup c[1] \cup f[1] \cup r[1] \cup tk,
                    IF idk = {} THEN "" ELSE "123", c[2],
                    IF tk = {} THEN <<>> ELSE <<"a">>, <<>>,
                    f[2], r[2], NoEntities, NoEntities)) :
        <<kind, idk, c, f, r, tk>> \in
            {"wrapped", "bare"} \X {{}, {"id_str"}} \X CreatedAtChoices
            \X FavoriteChoices \X RetweetChoices \X {{}, {"full_text"}}}

\* Entries that are not objects, or whose "tweet" value is not one.
NonObjectEntries ==
    {Entry(kind, EntryNotObject.tweet) : kind \in {"nondict", "wrapped_nondict"}}

SecureOnlyItem == MediaItem({"type", "media_url_https"}, "video", EmptyUrl, SampleUrlS)

ExtendedChoices ==
    {<<{}, NoEntities>>,
     <<{"extended_entities"}, [NoEntities EXCEPT !.keys = {"media"},
                                                 !.media = <<PhotoItem>>]>>,
     <<{"extended_entities"}, [NoEntities EXCEPT !.keys = {"media"},
                                                 !.media = <<SecureOnlyItem>>]>>}

EntitiesChoices ==
    {<<{}, NoEntities>>, <<{"entities"}, TagEntities>>,
     <<{"entities"}, MediaEntities>>,
     <<{"entities"}, [TagEntities EXCEPT !.keys = {"hashtags"}]>>,
     <<{"entities"}, TwoTagEntities>>}

\* Entries that differ in their entities.
MediaEntries ==
    {Entry("wrapped",
           TweetObj({"id_str", "created_at", "full_text"} \cup e[1] \cup x[1],
                    "9", T1, <<"a">>, <<>>, IntVal(0), IntVal(0), e[2], x[2])) :
        <<e, x>> \in EntitiesChoices \X ExtendedChoices}

\* What may exist under the archive: the asset root, its two subfolders and
\* a file img.jpg in each of the three.
AssetPaths ==
    {<<Locations[i], n>> : i \in 1..Len(Locations), n \in {"", "img.jpg"}}

\* A set of paths is a file system when the directory of every file exists
\* and the asset root exists whenever one of its subfolders does.
IsFileSystem(fs) ==
    /\ \A q \in fs : <<q[1], "">> \in fs
    /\ (\E q \in fs : q[1] # "assets") => <<"assets", "">> \in fs

AssetChoices == {fs \in SUBSET AssetPaths : IsFileSystem(fs)}

InitTweet ==
    /\ p_pc = "input"
    /\ \/ p_entry \in TextEntries(MaxTextLen) \cup FieldEntries \cup NonObjectEntries /\ assets = {}
       \/ p_entry \in MediaEntries /\ assets \in AssetChoices
    /\ p_result = NoResult

\* One call of process_tweet.
ProcessTweet ==
    /\ p_pc = "input"
    /\ p_result' = process_tweet(p_entry, assets)
    /\ p_pc' = "done"
    /\ UNCHANGED <<p_entry, assets, archive_vars, stats_vars, text_vars, aux_vars>>

----------------------------------------------------------------------------
(* find_local_media called on a media URL *)

IdleLookup ==
    /\ f_pc = "idle"
    /\ f_url = EmptyUrl
    /\ f_path = NoPath

\* URLs whose last segment is empty (the URL ends with '/'), is the name of
\* a subfolder of the asset root, or names a file that exists nowhere.
SlashUrl   == <<"http:", "", "pbs.twimg.com", "media", "">>
FolderUrl  == <<"http:", "", "pbs.twimg.com", "media">>
MissingUrl == <<"http:", "", "pbs.twimg.com", "media", "other.png">>

UrlChoices == {EmptyUrl, SampleUrl, SampleUrlS, SlashUrl, FolderUrl, MissingUrl}

InitLookup ==
    /\ f_pc = "input"
    /\ f_url \in UrlChoices
    /\ assets \in AssetChoices
    /\ f_path = NoPath

\* One call of find_local_media: it reads the file system and writes
\* nothing.
FindLocalMedia ==
    /\ f_pc = "input"
    /\ f_path' = find_local_media(f_url, assets)
    /\ f_pc' = "done"
    /\ UNCHANGED <<f_url, assets, archive_vars, tweet_vars, stats_vars, text_vars,
                   media_vars, entity_vars>>

----------------------------------------------------------------------------
(* TextCleaner: extract_entities and normalize_hashtags *)

\* The atoms the texts given to extract_entities are drawn from.
EntityChars == {"a", " ", "@", "#", "http://", "E"}

EntityTextsUpTo(n) == UNION {[1..k -> EntityChars] : k \in 0..n}

\* The characters of an atom that \w matches at its start: a letter is a
\* word character, "http://" starts with the word characters "http", the
\* other atoms (space, "@", "#", an emoji) start with none.
IsWordChar(c) == c = "a"

\* \w+ at the head of s, as the atoms it matches.
RECURSIVE WordRun(_)
WordRun(s) ==
    IF s = <<>> THEN <<>>
    ELSE IF IsWordChar(s[1]) THEN <<s[1]>> \o WordRun(Tail(s))
    ELSE IF s[1] = "http://" THEN <<"http">>
    ELSE <<>>

\* url_pattern.findall(text)
RECURSIVE url_pattern_findall(_)
url_pattern_findall(s) ==
    IF s = <<>> THEN <<>>
    ELSE IF s[1] \in UrlStart /\ RunLen(Tail(s)) > 0
         THEN <<SubSeq(s, 1, 1 + RunLen(Tail(s)))>>
              \o url_pattern_findall(Drop(s, 1 + RunLen(Tail(s))))
         ELSE url_pattern_findall(Tail(s))

\* mention_pattern.findall(text) for sigil "@" and
\* hashtag_pattern.findall(text) for sigil "#": the sigil and the word
\* characters that follow it, of which there is at least one.
RECURSIVE sigil_pattern_findall(_, _)
sigil_pattern_findall(s, sigil) ==
    IF s = <<>> THEN <<>>
    ELSE IF s[1] = sigil /\ WordRun(Tail(s)) # <<>>
         THEN <<(<<sigil>> \o WordRun(Tail(s)))>>
              \o sigil_pattern_findall(Drop(s, 1 + Len(WordRun(Tail(s)))), sigil)
         ELSE sigil_pattern_findall(Tail(s), sigil)

\* email_pattern.findall(text)
RECURSIVE email_pattern_findall(_)
email_pattern_findall(s) ==
    IF s = <<>> THEN <<>>
    ELSE IF EmailAtHead(s)
         THEN <<SubSeq(s, 1, RunLen(s))>> \o email_pattern_findall(Drop(s, RunLen(s)))
         ELSE email_pattern_findall(Tail(s))

NoEntityLists ==
    [urls |-> <<>>, mentions |-> <<>>, hashtags |-> <<>>, emojis |-> <<>>,
     emails |-> <<>>]

\* The atoms hashtags are made of: "#", an upper-case letter, a lower-case
\* letter, a digit.
TagChars == {"#", "A", "b", "1"}

IsUpper(c) == c = "A"
IsLower(c) == c = "b"
IsDigit(c) == c = "1"

\* str.lower() of one atom.
LowerChar(c) == IF c = "A" THEN "a" ELSE c

\* tag.lstrip('#')
RECURSIVE LStripHash(_)
LStripHash(s) == IF s # <<>> /\ s[1] = "#" THEN LStripHash(Tail(s)) ELSE s

\* Length of the leading run of atoms of one class.
RECURSIVE LowerRunLen(_)
LowerRunLen(s) ==
    IF s = <<>> \/ ~IsLower(s[1]) THEN 0 ELSE 1 + LowerRunLen(Tail(s))

RECURSIVE UpperRunLen(_)
UpperRunLen(s) ==
    IF s = <<>> \/ ~IsUpper(s[1]) THEN 0 ELSE 1 + UpperRunLen(Tail(s))

RECURSIVE DigitRunLen(_)
DigitRunLen(s) ==
    IF s = <<>> \/ ~IsDigit(s[1]) THEN 0 ELSE 1 + DigitRunLen(Tail(s))

\* Length of the match of
\*   [A-Z]?[a-z]+|[A-Z]{2,}(?=[A-Z][a-z]|\d|\W|$)|\d+
\* at the head of s, 0 when it does not match there.  The second
\* alternative takes the whole run of capitals when a digit, a non-word
\* character or the end follows, and the run less its last capital when a
\* lower-case letter follows.
CamelMatchLen(s) ==
    LET k == IF s # <<>> /\ IsUpper(s[1]) THEN 1 ELSE 0
        l == LowerRunLen(Drop(s, k))
        u == UpperRunLen(s)
    IN  IF l > 0 THEN k + l
        ELSE IF u >= 2 /\ (u = Len(s) \/ ~IsLower(s[u + 1])) THEN u
        ELSE IF u >= 3 /\ IsLower(s[u + 1]) THEN u - 1
        ELSE DigitRunLen(s)

\* re.findall of the pattern above.
RECURSIVE CamelWords(_)
CamelWords(s) ==
    IF s = <<>> THEN <<>>
    ELSE IF CamelMatchLen(s) > 0
         THEN <<SubSeq(s, 1, CamelMatchLen(s))>> \o CamelWords(Drop(s, CamelMatchLen(s)))
         ELSE CamelWords(Tail(s))

\* split_camel_case(tag)
split_camel_case(tag) ==
    LET words == CamelWords(LStripHash(tag))
    IN  Join([i \in 1..Len(words) |->
                 [j \in 1..Len(words[i]) |-> LowerChar(words[i][j])]],
             <<" ">>)

\* An argument: None, a text, or a list of hashtags.
NullArg == [null |-> TRUE, text |-> <<>>, tags |-> <<>>]
TextArg(t) == [null |-> FALSE, text |-> t, tags |-> <<>>]
TagsArg(ts) == [null |-> FALSE, text |-> <<>>, tags |-> ts]

Returned(text, entities, tags) ==
    [raised |-> FALSE, exc |-> "", text |-> text, entities |-> entities,
     tags |-> tags]

Raised(exc) ==
    [raised |-> TRUE, exc |-> exc, text |-> <<>>, entities |-> NoEntityLists,
     tags |-> <<>>]

\* TextCleaner.clean_text(arg): "if not text" is true of None and of ''.
clean_text_call(arg) ==
    IF arg.null THEN Returned(<<>>, NoEntityLists, <<>>)
    ELSE Returned(CleanDefault(arg.text), NoEntityLists, <<>>)

\* TextCleaner.extract_entities(arg): Pattern.findall(None) raises
\* TypeError.
extract_entities(arg) ==
    IF arg.null THEN Raised("TypeError")
    ELSE Returned(<<>>,
                  [urls |-> url_pattern_findall(arg.text),
                   mentions |-> sigil_pattern_findall(arg.text, "@"),
                   hashtags |-> sigil_pattern_findall(arg.text, "#"),
                   emojis |-> EmojiList(arg.text),
                   emails |-> email_pattern_findall(arg.text)],
                  <<>>)

\* TextCleaner.normalize_hashtags(arg): iterating None raises TypeError.
normalize_hashtags(arg) ==
    IF arg.null THEN Raised("TypeError")
    ELSE Returned(<<>>, NoEntityLists,
                  [i \in 1..Len(arg.tags) |-> split_camel_case(arg.tags[i])])

IdleEntities ==
    /\ e_pc = "idle"
    /\ e_op = "clean_text"
    /\ e_arg = NullArg
    /\ e_out = Returned(<<>>, NoEntityLists, <<>>)

TagsUpTo(n) == UNION {[1..k -> TagChars] : k \in 1..n}

InitEntities ==
    /\ e_pc = "input"
    /\ \/ /\ e_op \in {"clean_text", "extract_entities"}
          /\ e_arg \in {NullArg} \cup {TextArg(t) : t \in EntityTextsUpTo(MaxTextLen)}
       \/ /\ e_op = "normalize_hashtags"
          /\ e_arg \in {NullArg, TagsArg(<<>>)}
                \cup {TagsArg(<<t>>) : t \in TagsUpTo(MaxTagLen)}
                \cup {TagsArg(<<t, <<"#", "A", "b">> >>) : t \in TagsUpTo(1)}
    /\ e_out = Returned(<<>>, NoEntityLists, <<>>)

\* One call of a TextCleaner method.
CallCleaner ==
    /\ e_pc = "input"
    /\ e_out' = CASE e_op = "clean_text" -> clean_text_call(e_arg)
                  [] e_op = "extract_entities" -> extract_entities(e_arg)
                  [] e_op = "normalize_hashtags" -> normalize_hashtags(e_arg)
    /\ e_pc' = "done"
    /\ UNCHANGED <<e_op, e_arg>>
    /\ UNCHANGED <<assets, archive_vars, tweet_vars, stats_vars, text_vars,
                   lookup_vars, media_vars>>

----------------------------------------------------------------------------
(* MediaHandler: organize_media and generate_media_report *)

\* A file of the media directory.  stem is the name without its extension,
\* as the list of its '-'-separated parts; bytes stands for the content;
\* readable is whether open() and read() succeed.
DiskFile(stem, ext, bytes, size, readable) ==
    [stem |-> stem, ext |-> ext, bytes |-> bytes, size |-> size,
     readable |-> readable]

\* Three files with the same content, two of them with the same stem; a
\* fourth with that content that belongs to another tweet; a file whose
\* name has no '-'; a file that cannot be read.
PhotoJpg  == DiskFile(<<"1", "a">>, "jpg", "X", 2, TRUE)
PhotoPng  == DiskFile(<<"1", "a">>, "png", "X", 2, TRUE)
PhotoCopy == DiskFile(<<"1", "b">>, "jpg", "X", 2, TRUE)
VideoCopy == DiskFile(<<"2", "a">>, "mp4", "X", 2, TRUE)
PlainFile == DiskFile(<<"3">>, "jpg", "Y", 1, TRUE)
Unreadable == DiskFile(<<"4", "a">>, "jpg", "Y", 1, FALSE)

DiskFiles == {PhotoJpg, PhotoPng, PhotoCopy, VideoCopy, PlainFile, Unreadable}

\* The listings of a media directory with at most n files: glob yields
\* every file once, in no particular order.
MediaDirsUpTo(n) ==
    {d \in UNION {[1..k -> DiskFiles] : k \in 0..n} :
        \A i, j \in 1..Len(d) : i # j => d[i] # d[j]}

MediaTweetIds == {f.stem[1] : f \in DiskFiles}

\* calculate_file_hash: the MD5 digest of the content.
calculate_file_hash(file) == file.bytes

\* detect_media_type: mimetypes.guess_type by extension.
detect_media_type(file) ==
    CASE file.ext = "jpg" -> "image/jpeg"
      [] file.ext = "png" -> "image/png"
      [] file.ext = "mp4" -> "video/mp4"
      [] OTHER            -> "application/octet-stream"

NoMediaFile ==
    [file_id |-> <<>>, original_path |-> PhotoJpg, media_type |-> "",
     tweet_ids |-> {}, size_bytes |-> 0, hash_md5 |-> ""]

\* MediaFile(file_id=..., ...) of lines 80-87.
MediaFile(file, tweet_id) ==
    [file_id |-> file.stem, original_path |-> file,
     media_type |-> detect_media_type(file), tweet_ids |-> {tweet_id},
     size_bytes |-> file.size, hash_md5 |-> calculate_file_hash(file)]

NoReport ==
    [total_files |-> 0, total_size_bytes |-> 0, media_types |-> <<>>,
     duplicate_files |-> <<>>]

\* __init__: self.media_inventory = {}
InitMedia ==
    /\ m_pc = "start"
    /\ media_files \in MediaDirsUpTo(MaxMedia)
    /\ m_futures = <<>>
    /\ m_objects = <<>>
    /\ media_inventory = <<>>
    /\ m_next = 1
    /\ tweet_media_map = [t \in MediaTweetIds |-> <<>>]
    /\ m_errors = 0
    /\ report = NoReport

IdleMedia ==
    /\ m_pc = "idle"
    /\ media_files = <<>>
    /\ m_futures = <<>>
    /\ m_objects = <<>>
    /\ media_inventory = <<>>
    /\ m_next = 1
    /\ tweet_media_map = [t \in MediaTweetIds |-> <<>>]
    /\ m_errors = 0
    /\ report = NoReport

\* The position of file_id among the keys of media_inventory, 0 if absent.
InventoryIndex(inv, file_id) ==
    IF \E k \in 1..Len(inv) : inv[k].file_id = file_id
    THEN CHOOSE k \in 1..Len(inv) : inv[k].file_id = file_id
    ELSE 0

\* organize_media lines 103-113: one process_media_file task per file, the
\* tweet id being the part of the stem before the first '-'.
Submit ==
    /\ m_pc = "start"
    /\ m_futures' = [i \in 1..Len(media_files) |->
                        [file |-> media_files[i],
                         tweet_id |-> media_files[i].stem[1],
                         pc |-> "check", result |-> 0]]
    /\ m_objects' = [i \in 1..Len(media_files) |-> NoMediaFile]
    /\ m_pc' = "scan"
    /\ UNCHANGED <<media_files, media_inventory, m_next, tweet_media_map,
                   m_errors, report>>
    /\ UNCHANGED <<assets, archive_vars, tweet_vars, stats_vars, text_vars,
                   lookup_vars, entity_vars>>

\* process_media_file lines 67-76 in a worker thread: the file is hashed
\* (an I/O error is logged and None returned), then file_id is looked up
\* in media_inventory.
CheckInventory(i) ==
    /\ m_pc = "scan"
    /\ i \in 1..Len(m_futures)
    /\ m_futures[i].pc = "check"
    /\ IF ~m_futures[i].file.readable
       THEN /\ m_futures' = [m_futures EXCEPT ![i].pc = "done"]
            /\ m_errors' = m_errors + 1
       ELSE /\ m_futures' =
                 [m_futures EXCEPT ![i].pc =
                     IF InventoryIndex(media_inventory, m_futures[i].file.stem) # 0
                     THEN "add" ELSE "store"]
            /\ UNCHANGED m_errors
    /\ UNCHANGED <<m_pc, media_files, m_objects, media_inventory, m_next,
                   tweet_media_map, report>>
    /\ UNCHANGED <<assets, archive_vars, tweet_vars, stats_vars, text_vars,
                   lookup_vars, entity_vars>>

\* Lines 77-78: the tweet id is added to the entry found and the entry is
\* returned.
AddTweetId(i) ==
    /\ m_pc = "scan"
    /\ i \in 1..Len(m_futures)
    /\ m_futures[i].pc = "add"
    /\ LET k == InventoryIndex(media_inventory, m_futures[i].file.stem)
           obj == media_inventory[k].obj
       IN  /\ m_objects' = [m_objects EXCEPT
                               ![obj].tweet_ids = @ \cup {m_futures[i].tweet_id}]
           /\ m_futures' = [m_futures EXCEPT ![i].pc = "done", ![i].result = obj]
    /\ UNCHANGED <<m_pc, media_files, media_inventory, m_next, tweet_media_map,
                   m_errors, report>>
    /\ UNCHANGED <<assets, archive_vars, tweet_vars, stats_vars, text_vars,
                   lookup_vars, entity_vars>>

\* Lines 80-90: a MediaFile is built and assigned to
\* media_inventory[file_id]; assigning to a key the dict already has
\* replaces its value and keeps its position.
StoreMediaFile(i) ==
    /\ m_pc = "scan"
    /\ i \in 1..Len(m_futures)
    /\ m_futures[i].pc = "store"
    /\ LET file == m_futures[i].file
           k == InventoryIndex(media_inventory, file.stem)
           item == [file_id |-> file.stem, obj |-> i]
       IN  /\ m_objects' = [m_objects EXCEPT
                               ![i] = MediaFile(file, m_futures[i].tweet_id)]
           /\ media_inventory' = IF k = 0 THEN Append(media_inventory, item)
                                 ELSE [media_inventory EXCEPT ![k] = item]
           /\ m_futures' = [m_futures EXCEPT ![i].pc = "done", ![i].result = i]
    /\ UNCHANGED <<m_pc, media_files, m_next, tweet_media_map, m_errors, report>>
    /\ UNCHANGED <<assets, archive_vars, tweet_vars, stats_vars, text_vars,
                   lookup_vars, entity_vars>>

\* Lines 115-121: future.result() of the next future, in submission order;
\* the file id is appended to the list of every tweet id of the MediaFile
\* returned.
CollectMedia ==
    /\ m_pc = "scan"
    /\ m_next <= Len(m_futures)
    /\ m_futures[m_next].pc = "done"
    /\ LET obj == m_futures[m_next].result
       IN  tweet_media_map' =
             IF obj = 0 THEN tweet_media_map
             ELSE [t \in MediaTweetIds |->
                     IF t \in m_objects[obj].tweet_ids
                     THEN Append(tweet_media_map[t], m_objects[obj].file_id)
                     ELSE tweet_media_map[t]]
    /\ m_next' = m_next + 1
    /\ UNCHANGED <<m_pc, media_files, m_futures, m_objects, media_inventory,
                   m_errors, report>>
    /\ UNCHANGED <<assets, archive_vars, tweet_vars, stats_vars, text_vars,
                   lookup_vars, entity_vars>>

\* Line 123: every result is collected and the executor has shut down.
ReturnMap ==
    /\ m_pc = "scan"
    /\ m_next > Len(m_futures)
    /\ m_pc' = "scanned"
    /\ UNCHANGED <<media_files, m_futures, m_objects, media_inventory, m_next,
                   tweet_media_map, m_errors, report>>
    /\ UNCHANGED <<assets, archive_vars, tweet_vars, stats_vars, text_vars,
                   lookup_vars, entity_vars>>

\* self.media_inventory.values(), in insertion order.
InventoryValues(inv, objects) == [k \in 1..Len(inv) |-> objects[inv[k].obj]]

\* Lines 157-162: number of inventory entries per media type.
MediaTypeCounts(values) ==
    [t \in {values[k].media_type : k \in 1..Len(values)} |->
        Cardinality({k \in 1..Len(values) : values[k].media_type = t})]

\* Lines 164-173: seen holds the entries whose hash was put in hash_map; an
\* entry whose hash is already there is reported as the duplicate of the
\* entry that put it there.
RECURSIVE FindDuplicates(_, _)
FindDuplicates(values, seen) ==
    IF values = <<>> THEN <<>>
    ELSE LET m == values[1]
             prior == {j \in 1..Len(seen) : seen[j].hash_md5 = m.hash_md5}
         IN  IF prior # {}
             THEN <<[original |-> seen[CHOOSE j \in prior : TRUE].file_id,
                     duplicate |-> m.file_id]>>
                  \o FindDuplicates(Tail(values), seen)
             ELSE FindDuplicates(Tail(values), Append(seen, m))

\* MediaHandler.generate_media_report
generate_media_report(inv, objects) ==
    LET values == InventoryValues(inv, objects)
    IN  [total_files |-> Len(inv),
         total_size_bytes |-> SeqSum([k \in 1..Len(values) |-> values[k].size_bytes]),
         media_types |-> MediaTypeCounts(values),
         duplicate_files |-> FindDuplicates(values, <<>>)]

GenerateMediaReport ==
    /\ m_pc = "scanned"
    /\ report' = generate_media_report(media_inventory, m_objects)
    /\ m_pc' = "reported"
    /\ UNCHANGED <<media_files, m_futures, m_objects, media_inventory, m_next,
                   tweet_media_map, m_errors>>
    /\ UNCHANGED <<assets, archive_vars, tweet_vars, stats_vars, text_vars,
                   lookup_vars, entity_vars>>

----------------------------------------------------------------------------
(* generate_summary_stats called on a frame *)

IdleStats ==
    /\ g_pc = "idle"
    /\ g_df = NoFrame
    /\ g_stats = NoStatsResult

\* Rows of a processed frame that differ in what the statistics read.
StatsRows ==
    {DeriveRow([NoTweet EXCEPT !.id = "1", !.created_at = TimeOf(c),
                               !.likes = l, !.retweets = r, !.media = m]) :
        <<c, l, r, m>> \in
            ValidTimes \X (0..2) \X (0..1)
            \X {<<>>, <<TweetMedia(PhotoItem, {})>>}}

\* The frames given to generate_summary_stats: the frame process_archive
\* builds from no tweets (pd.DataFrame([]), no columns), and frames with
\* every column and at most n rows.
StatsFrames(n) ==
    {DataFrame(<<>>)} \cup
    {[columns |-> TweetColumns \cup DerivedColumns, rows |-> rows] :
        rows \in UNION {[1..k -> StatsRows] : k \in 0..n}}

InitStats ==
    /\ g_pc = "input"
    /\ g_df \in StatsFrames(MaxRows)
    /\ g_stats = NoStatsResult

\* One call of generate_summary_stats.
GenerateSummaryStats ==
    /\ g_pc = "input"
    /\ g_stats' = generate_summary_stats(g_df)
    /\ g_pc' = "done"
    /\ UNCHANGED <<g_df, assets, archive_vars, tweet_vars, text_vars, aux_vars>>

----------------------------------------------------------------------------
(* TextCleaner.clean_text called on a text, then on its own result *)

IdleText ==
    /\ t_pc = "idle"
    /\ t_in = <<>>
    /\ t_once = <<>>
    /\ t_twice = <<>>

InitText ==
    /\ t_pc = "input"
    /\ t_in \in TextsUpTo(MaxTextLen)
    /\ t_once = <<>>
    /\ t_twice = <<>>

CleanOnce ==
    /\ t_pc = "input"
    /\ t_once' = CleanDefault(t_in)
    /\ t_pc' = "once"
    /\ UNCHANGED <<t_in, t_twice, assets, archive_vars, tweet_vars, stats_vars,
                   aux_vars>>

CleanTwice ==
    /\ t_pc = "once"
    /\ t_twice' = CleanDefault(t_once)
    /\ t_pc' = "twice"
    /\ UNCHANGED <<t_in, t_once, assets, archive_vars, tweet_vars, stats_vars,
                   aux_vars>>

----------------------------------------------------------------------------
(* Specifications *)

\* None of the calls modelled on their own is under way.
IdleAux == IdleLookup /\ IdleMedia /\ IdleEntities

\* The script's run: process_archive, then generate_summary_stats.
Init == InitArchive /\ IdleTweet /\ IdleStats /\ IdleText /\ IdleAux

Next ==
    \/ Start
    \/ LoadFile
    \/ \E i \in 1..MaxEntries : RunTask(i)
    \/ Collect
    \/ Shutdown
    \/ BuildFrame
    \/ Derive
    \/ Sort
    \/ SaveFormat
    \/ Return
    \/ SummaryStats

Spec == Init /\ [][Next]_vars

\* process_tweet on every kind of entry.
InitSpecTweet == InitTweet /\ IdleArchive /\ IdleStats /\ IdleText /\ IdleAux

NextTweet == ProcessTweet

SpecTweet == InitSpecTweet /\ [][NextTweet]_vars

\* generate_summary_stats on every frame.
InitSpecStats ==
    InitStats /\ IdleArchive /\ assets = {} /\ IdleTweet /\ IdleText /\ IdleAux

NextStats == GenerateSummaryStats

SpecStats == InitSpecStats /\ [][NextStats]_vars

\* TextCleaner.clean_text with default options, applied twice.
InitSpecText ==
    InitText /\ IdleArchive /\ assets = {} /\ IdleTweet /\ IdleStats /\ IdleAux

NextText ==
    \/ CleanOnce
    \/ CleanTwice

SpecText == InitSpecText /\ [][NextText]_vars

\* find_local_media on every URL and file system.
InitSpecLookup ==
    /\ InitLookup /\ IdleArchive /\ IdleTweet /\ IdleStats /\ IdleText
    /\ IdleMedia /\ IdleEntities

\* The methods of TextCleaner on empty, None and other arguments.
InitSpecEntities ==
    /\ InitEntities /\ IdleArchive /\ assets = {} /\ IdleTweet /\ IdleStats
    /\ IdleText /\ IdleLookup /\ IdleMedia

NextEntities == CallCleaner

SpecEntities == InitSpecEntities /\ [][NextEntities]_vars

\* MediaHandler: the inventory scan with its worker threads, then the
\* report.
InitSpecMedia ==
    /\ InitMedia /\ IdleArchive /\ assets = {} /\ IdleTweet /\ IdleStats
    /\ IdleText /\ IdleLookup /\ IdleEntities

NextMedia ==
    \/ Submit
    \/ \E i \in 1..MaxMedia : CheckInventory(i)
    \/ \E i \in 1..MaxMedia : AddTweetId(i)
    \/ \E i \in 1..MaxMedia : StoreMediaFile(i)
    \/ CollectMedia
    \/ ReturnMap
    \/ GenerateMediaReport

SpecMedia == InitSpecMedia /\ [][NextMedia]_vars

NextLookup == FindLocalMedia

SpecLookup == InitSpecLookup /\ [][NextLookup]_vars

----------------------------------------------------------------------------
(* Claims *)

\* The entries of the decodable files, in file order then entry order.
RECURSIVE EntriesFrom(_)
EntriesFrom(fs) ==
    IF fs = <<>> THEN <<>>
    ELSE (IF fs[1].decodes THEN fs[1].entries ELSE <<>>) \o EntriesFrom(Tail(fs))

\* An entry is an object wrapping (or being) a tweet object.
IsObjectEntry(e) == e.kind \in {"wrapped", "bare"}

HasValidTime(e) ==
    "created_at" \in e.tweet.keys /\ e.tweet.created_at \in ValidTimes

HasValidCounts(e) ==
    /\ ("favorite_count" \in e.tweet.keys => e.tweet.favorite_count.kind # "badstr")
    /\ ("retweet_count" \in e.tweet.keys => e.tweet.retweet_count.kind # "badstr")

\* An entry none of whose fields can fail to extract.
IsCompleteEntry(e) == IsObjectEntry(e) /\ HasValidTime(e) /\ HasValidCounts(e)

IdsOf(rows) == [i \in 1..Len(rows) |-> rows[i].id]

\* The ids of the complete entries of the archive, in assembly order.
CompleteIds ==
    LET es == SelectSeq(EntriesFrom(files), IsCompleteEntry)
    IN  [i \in 1..Len(es) |-> es[i].tweet.id_str]

Finished == pc \in {"returned", "summarized"}

\* C1: a failure while extracting a single entry never aborts the run: no
\* process_tweet task raises, the run is never left through an entry's
\* exception, and once every file is collected the records of the entries
\* that can be extracted are all in tweets_data.
C1_EntryFailureNeverAborts ==
    /\ \A i \in 1..Len(futures) : futures[i].result.outcome # "raise"
    /\ pc # "shutdown"
    /\ (pc = "derive" => IdsOf(tweets_data) = CompleteIds)

\* C2: an entry whose timestamp is absent, empty or not in the fixed format
\* (and that is otherwise extractable) still yields a Record, with
\* created_at set to the current UTC time.
C2_TimestampFallback ==
    (/\ p_pc = "done"
     /\ IsObjectEntry(p_entry)
     /\ HasValidCounts(p_entry)
     /\ ~HasValidTime(p_entry))
    => /\ p_result.outcome = "tweet"
       /\ p_result.tweet.created_at = NowTime

\* C3: on empty input (every file collected and no record parsed)
\* process_archive does not raise; it returns an empty collection after
\* attempting each requested format.
C3_EmptyInputReturns ==
    (file_idx > Len(files) /\ tweets_data = <<>>)
    => /\ pc # "raised"
       /\ (Finished => df.rows = <<>> /\ attempted = save_formats)

Malformed == {i \in 1..Len(files) : ~files[i].decodes}

\* C4: with several files of which exactly one is malformed, in any position,
\* and whose other files hold extractable entries only (at least one),
\* exactly one file-decode failure is logged (never more than one, and one
\* once the run is finished), the run does not raise, and it returns exactly
\* the records of the other files.
C4_MalformedFileSkipped ==
    (/\ Len(files) >= 2
     /\ Cardinality(Malformed) = 1
     /\ CompleteIds # <<>>
     /\ Len(CompleteIds) = Len(EntriesFrom(files)))
    => /\ log.file_errors <= 1
       /\ pc # "raised"
       /\ (Finished => log.file_errors = 1)
       /\ (Finished =>
             \A id \in {"1", "2", "3"} :
                Cardinality({i \in 1..Len(df.rows) : df.rows[i].id = id})
                = Cardinality({i \in 1..Len(CompleteIds) : CompleteIds[i] = id}))

\* C5: an entry that carries only an id yields nothing, without raising,
\* and the records of the other entries are the ones assembled.
C5_OnlyIdDropped ==
    /\ \A i \in 1..Len(futures) :
          (/\ IsObjectEntry(futures[i].entry)
           /\ futures[i].entry.tweet.keys = {"id_str"}
           /\ futures[i].result.outcome # "pending")
          => futures[i].result.outcome = "none"
    /\ (pc = "derive" => IdsOf(tweets_data) = CompleteIds)

\* C5 witness: a finished run over an archive with an only-id entry and
\* another entry whose record was returned.
C5_Witness ==
    /\ Finished
    /\ \E i \in 1..Len(EntriesFrom(files)) : EntriesFrom(files)[i] = EntryOnlyId
    /\ Len(df.rows) = 1

\* The rows with a given timestamp, in order.
RowsAt(rows, t) == SelectSeq(rows, LAMBDA r : r.created_at.t = t)

Ascending(rows) ==
    \A i \in 1..Len(rows) : \A j \in i..Len(rows) :
        rows[i].created_at.t <= rows[j].created_at.t

\* C6 as claimed: the returned collection is ascending by created_at and
\* records with equal created_at keep their assembly order.
C6_SortedStable ==
    Finished
    => /\ Ascending(df.rows)
       /\ \A t \in 1..2 : IdsOf(RowsAt(df.rows, t)) = IdsOf(RowsAt(tweets_data, t))

\* C6 amended: the returned collection is ascending by created_at and holds
\* the assembled records, each as often as assembled; the relative order of
\* records with equal created_at is not fixed.
C6_SortedAscending ==
    Finished
    => /\ Ascending(df.rows)
       /\ Len(df.rows) = Len(tweets_data)
       /\ \A id \in {"1", "2", "3"} :
             Cardinality({i \in 1..Len(df.rows) : df.rows[i].id = id})
             = Cardinality({i \in 1..Len(tweets_data) : tweets_data[i].id = id})

\* C6 witness: a returned collection whose first two records were assembled
\* in descending order of created_at.
C6_Witness ==
    /\ Finished
    /\ Len(tweets_data) = 2
    /\ tweets_data[1].created_at.t > tweets_data[2].created_at.t
    /\ df.rows[1].id = tweets_data[2].id

\* C7: clean_text with default options is idempotent.
C7_Idempotent == t_pc = "twice" => t_twice = t_once

\* The text field process_tweet reads: full_text if present, else text,
\* else the empty string.
PreferredText(e) ==
    IF "full_text" \in e.tweet.keys THEN e.tweet.full_text
    ELSE IF "text" \in e.tweet.keys THEN e.tweet.text
    ELSE <<>>

Count(s, c) == Cardinality({i \in 1..Len(s) : s[i] = c})

C9_EmptySummary ==
    (g_pc = "done" /\ g_df.rows = <<>>)
    => /\ ~g_stats.raised
       /\ g_stats.stats.total_tweets = 0
       /\ g_stats.stats.total_likes = 0
       /\ g_stats.stats.total_retweets = 0
       /\ g_stats.stats.avg_likes_per_tweet.nan
       /\ g_stats.stats.avg_retweets_per_tweet.nan

Supported(fs) == {i \in 1..Len(fs) : Lower(fs[i]) \in SupportedFormats}

\* C10: a write failure does not stop the save loop or the run: the loop
\* goes through the requested formats in order, the run is never left once
\* a format was attempted, and when it returns every requested format was
\* attempted and every supported one was either written or its failure
\* logged.
C10_WriteFailuresIsolated ==
    /\ attempted = SubSeq(save_formats, 1, Len(attempted))
    /\ (pc = "raised" => attempted = <<>>)
    /\ written \subseteq {Lower(attempted[i]) : i \in 1..Len(attempted)}
    /\ Cardinality(written) + log.save_errors = Cardinality(Supported(attempted))
    /\ (Finished => attempted = save_formats)

\* C10 witness: a returned run in which the first format's write failed and
\* a later format was written.
C10_Witness ==
    /\ Finished
    /\ save_formats = <<"CSV", "xml", "json">>
    /\ log.save_errors = 1
    /\ written = {"json"}

\* The value of a count field of the source after integer coercion: the
\* integer, the integer a numeric string spells, 0 when null or absent.
SourceCount(e, k) ==
    IF k \in e.tweet.keys /\ e.tweet[k].kind \in {"int", "numstr"}
    THEN e.tweet[k].v ELSE 0

\* A list of the entities of the source, empty when absent.
SourceEntities(e, k) ==
    IF "entities" \in e.tweet.keys /\ k \in e.tweet.entities.keys
    THEN e.tweet.entities[k] ELSE <<>>

\* C11: for every valid entry (an object that carries an id, a timestamp in
\* the fixed format and counts that coerce to integers) process_tweet
\* produces a Record whose id is the source id, whose likes and retweets are
\* the source counts after integer coercion (0 when null or absent) and
\* whose hashtags and urls have the length and order of the source lists.
C11_FieldsFaithful ==
    (/\ p_pc = "done"
     /\ IsCompleteEntry(p_entry)
     /\ "id_str" \in p_entry.tweet.keys)
    => /\ p_result.outcome = "tweet"
       /\ p_result.tweet.id = p_entry.tweet.id_str
       /\ p_result.tweet.likes = SourceCount(p_entry, "favorite_count")
       /\ p_result.tweet.retweets = SourceCount(p_entry, "retweet_count")
       /\ LET tags == SourceEntities(p_entry, "hashtags")
              urls == SourceEntities(p_entry, "urls")
          IN  /\ Len(p_result.tweet.hashtags) = Len(tags)
              /\ \A i \in 1..Len(tags) :
                    "text" \in tags[i].keys
                    => p_result.tweet.hashtags[i] = tags[i].text
              /\ Len(p_result.tweet.urls) = Len(urls)
              /\ \A i \in 1..Len(urls) :
                    "expanded_url" \in urls[i].keys
                    => p_result.tweet.urls[i] = urls[i].expanded_url

\* C11 witness: a Record made from an entry with two hashtags and two urls,
\* in source order.
C11_Witness ==
    /\ p_pc = "done"
    /\ p_result.outcome = "tweet"
    /\ p_entry.tweet.entities = TwoTagEntities
    /\ p_result.tweet.id = "9"
    /\ p_result.tweet.hashtags = <<"test", "again">>
    /\ Len(p_result.tweet.urls) = 2

\* The media items of the source: those of entities and those of
\* extended_entities, either of which may be absent.
SourceMedia(e) ==
    LET ent == IF "entities" \in e.tweet.keys /\ "media" \in e.tweet.entities.keys
               THEN e.tweet.entities.media ELSE <<>>
        ext == IF "extended_entities" \in e.tweet.keys
                  /\ "media" \in e.tweet.extended_entities.keys
               THEN e.tweet.extended_entities.media ELSE <<>>
    IN  {ent[i] : i \in 1..Len(ent)} \cup {ext[i] : i \in 1..Len(ext)}

\* The url a media item is to be represented with: the plain media URL,
\* else the secure variant, else the empty string.
SourceUrl(m) ==
    IF "media_url" \in m.keys /\ m.media_url # EmptyUrl THEN m.media_url
    ELSE IF "media_url_https" \in m.keys THEN m.media_url_https
    ELSE EmptyUrl

\* C12: the media sequence of a Record is the union of the media lists of
\* entities and extended_entities: every item of either list is represented
\* by a MediaRef with the item's url (plain, else secure, else empty), and
\* an item present in both lists is represented once.
C12_MediaUnion ==
    (p_pc = "done" /\ p_result.outcome = "tweet")
    => LET items == SourceMedia(p_entry)
           media == p_result.tweet.media
       IN  /\ \A m \in items :
                 \E i \in 1..Len(media) : media[i].url = SourceUrl(m)
           /\ Len(media) = Cardinality(items)

\* The locations, in probe order, where a file of the given name exists.
FileAt(name, fs) ==
    {i \in 1..Len(Locations) : name # "" /\ <<Locations[i], name>> \in fs}

\* C13: find_local_media returns nothing when the last segment of the URL
\* names a file that exists in none of the three candidate locations, and
\* otherwise the path of the first location, in probe order, where the file
\* exists.
C13_ResolveLocal ==
    f_pc = "done"
    => LET name == f_url[Len(f_url)]
           at == FileAt(name, assets)
       IN  IF at = {} THEN ~f_path.found
           ELSE /\ f_path.found
                /\ f_path.name = name
                /\ f_path.dir = Locations[CHOOSE i \in at : \A j \in at : i <= j]

\* The files of the directory that can be hashed and have the given content.
SameContent(bytes) ==
    {i \in 1..Len(media_files) :
        media_files[i].readable /\ media_files[i].bytes = bytes}

\* The duplicate pairs of the report that name the given file as duplicate.
PairsOf(file) ==
    {k \in 1..Len(report.duplicate_files) :
        report.duplicate_files[k].duplicate = file.stem}

\* C14: in the media report duplicates are determined by content hash: of
\* the files with the same content one (the first seen) is the original of
\* every pair of that content, and each of the others is the duplicate of
\* exactly one pair; so two files with the same bytes and different names
\* have a pair that names both.
C14_DuplicatesByHash ==
    m_pc = "reported"
    => \A bytes \in {f.bytes : f \in DiskFiles} :
          LET same == SameContent(bytes)
          IN  same # {}
              => \E o \in same :
                    \A i \in same \ {o} :
                       /\ Cardinality(PairsOf(media_files[i])) = 1
                       /\ \A k \in PairsOf(media_files[i]) :
                             report.duplicate_files[k].original
                                 = media_files[o].stem

\* The calls that assigned a MediaFile to media_inventory[file_id].
Creators(file_id) ==
    {i \in 1..Len(m_futures) :
        m_futures[i].file.stem = file_id /\ m_futures[i].result = i}

\* C18: under every interleaving of the process_media_file calls of a scan,
\* each file identifier is claimed by exactly one call (at most one call
\* creates its inventory entry, and one has once the calls for it are
\* done), and the tweet id of every call that returned an entry is in the
\* association set of the inventory entry of its file identifier.
C18_ClaimedOnce ==
    \A i \in 1..Len(m_futures) :
        LET file_id == m_futures[i].file.stem
            k == InventoryIndex(media_inventory, file_id)
        IN  /\ Cardinality(Creators(file_id)) <= 1
            /\ (m_futures[i].pc = "done" /\ m_futures[i].result # 0)
               => /\ k # 0
                  /\ m_futures[i].tweet_id
                        \in m_objects[media_inventory[k].obj].tweet_ids

\* The sum of a numeric field over the first n rows.
RECURSIVE TotalOf(_, _, _)
TotalOf(rows, field, n) ==
    IF n = 0 THEN 0 ELSE rows[n][field] + TotalOf(rows, field, n - 1)

\* C15: for the collection process_archive returned, the statistics report
\* total_tweets = number of records, total_likes and total_retweets = the
\* sums of the records' likes and retweets, and tweets_with_media = number
\* of records with a non-empty media sequence, has_media being true for
\* exactly those records.
C15_SummaryTotals ==
    pc = "summarized"
    => /\ ~stats.raised
       /\ stats.stats.total_tweets = Len(df.rows)
       /\ stats.stats.total_likes = TotalOf(df.rows, "likes", Len(df.rows))
       /\ stats.stats.total_retweets = TotalOf(df.rows, "retweets", Len(df.rows))
       /\ stats.stats.tweets_with_media
             = Cardinality({i \in 1..Len(df.rows) : df.rows[i].media # <<>>})
       /\ \A i \in 1..Len(df.rows) :
             df.rows[i].has_media <=> (df.rows[i].media # <<>>)

\* C15 witness: the statistics of a returned collection of two records, one
\* of them with media, whose likes add up to 5 and retweets to 2.
C15_Witness ==
    /\ pc = "summarized"
    /\ Len(df.rows) = 2
    /\ stats.stats.total_tweets = 2
    /\ stats.stats.total_likes = 5
    /\ stats.stats.total_retweets = 2
    /\ stats.stats.tweets_with_media = 1

\* The argument is None, the empty string or the empty list.
IsEmptyArg(arg) == arg.null \/ (arg.text = <<>> /\ arg.tags = <<>>)

\* C16: no method of TextCleaner raises on an empty or None argument:
\* clean_text returns the empty string, extract_entities and
\* normalize_hashtags return empty collections.
C16_EmptyOrNullInput ==
    (e_pc = "done" /\ IsEmptyArg(e_arg))
    => /\ ~e_out.raised
       /\ e_out.text = <<>>
       /\ e_out.entities = NoEntityLists
       /\ e_out.tags = <<>>

\* The emoji characters of a text, in order.
RECURSIVE EmojiOf(_)
EmojiOf(s) ==
    IF s = <<>> THEN <<>>
    ELSE (IF s[1] \in {"E", "E2"} THEN <<s[1]>> ELSE <<>>) \o EmojiOf(Tail(s))

\* C17: with emoji preservation on (the default), every emoji character of
\* the input of clean_text is in the output, and the output ends with the
\* emoji of the input, in their original order, each preceded by a single
\* space.
C17_EmojiPreserved ==
    (t_pc \in {"once", "twice"} /\ EmojiOf(t_in) # <<>>)
    => LET found == EmojiOf(t_in)
           n == Len(found)
           start == Len(t_once) - 2 * n
       IN  /\ start >= 0
           /\ \A k \in 1..n :
                 /\ t_once[start + 2 * k - 1] = " "
                 /\ t_once[start + 2 * k] = found[k]
           /\ \A c \in {"E", "E2"} : Count(t_once, c) >= Count(t_in, c)

\* C17 witness: a text with two different emoji, the first of them inside
\* a URL that is removed, cleaned to a text that ends with both in order.
C17_Witness ==
    /\ t_pc = "once"
    /\ t_in = <<"http://", "E2", "E">>
    /\ t_once = <<" ", "E2", " ", "E">>

\* Every entry of the archive is an object with a valid timestamp and
\* counts that coerce.
AllComplete ==
    \A i \in 1..Len(EntriesFrom(files)) : IsCompleteEntry(EntriesFrom(files)[i])

\* The record of the i-th entry of the archive, in file order then entry
\* order: a function of the files alone.
ExpectedRecord(i) == process_tweet(EntriesFrom(files)[i], assets).tweet

\* C19: for files whose entries all carry valid timestamps the collection
\* does not depend on the order in which the parsing tasks complete: in
\* every interleaving tweets_data grows as a prefix of the records in file
\* and entry order, is the whole of them when the frame is built, and the
\* collection returned is that fixed sequence with the derived columns,
\* sorted by created_at.
C19_CompletionOrderIndependent ==
    AllComplete
    => /\ Len(tweets_data) <= Len(EntriesFrom(files))
       /\ \A i \in 1..Len(tweets_data) : tweets_data[i] = ExpectedRecord(i)
       /\ (pc \in {"derive", "sort", "save", "returned", "summarized"}
             => Len(tweets_data) = Len(EntriesFrom(files)))
       /\ (Finished
             => df.rows \in sort_values([i \in 1..Len(EntriesFrom(files)) |->
                                           DeriveRow(ExpectedRecord(i))]))

\* C19 witness: a run that returned the two records of a file whose second
\* entry carries the earlier timestamp, in timestamp order.
C19_Witness ==
    /\ Finished
    /\ AllComplete
    /\ Len(files) = 1
    /\ files[1].entries = <<EntryA, EntryB>>
    /\ IdsOf(tweets_data) = <<"1", "2">>
    /\ IdsOf(df.rows) = <<"2", "1">>

====
